---- MODULE Spec2Model ----
(***************************************************************************)
(* Joy Streak Bot: the progression and streak ledger.                      *)
(*                                                                         *)
(* The bot runs on one asyncio event loop over one database connection:    *)
(* a handler runs without interruption from one `await` to the next, and   *)
(* other handlers and admin commands run while it is suspended.  Every     *)
(* action below is one such uninterrupted stretch of code.  The database   *)
(* is the record db == [users, daily_senders, server_stats]; the functions *)
(* of src/database.py are operators on it that keep their source names.    *)
(* The table daily_senders is the bag of its rows (discord_id, date): the  *)
(* key of the table acts where a row is inserted.                          *)
(***************************************************************************)
EXTENDS Integers, Sequences, FiniteSets, Bags, TLC

\* ----------------------------------------------------------------- bounds
MaxDay == 4
MaxOps == 3
MaxCommunityOps == 5
NumProcs == 2
MaxLedgerOps == 3
MaxLevel == 40
MaxXp == 3000
MaxCurveOps == 2
MaxCommandOps == 3
MaxFaultOps == 2
MaxResetOps == 4
MaxStreakOps == 3

\* ------------------------------------------------------ program constants
\* The value of a DATE column that is NULL (Python None).
NULL == -1
\* CONFIG['rewards']['joy_base_xp'] and CONFIG['penalties']['wrong_channel_xp_loss']:
\* config/config.json is deployment data; the values here are one deployment.
JoyBaseXp == 40
WrongChannelXpLoss == 50
\* CONFIG['rewards']['daily_coins_per_level'], likewise.
DailyCoinsPerLevel == 5
\* The statements of reset_all_data: six TRUNCATEs and one UPDATE.
ResetStatements == 7
\* The most writes one stretch of handle_joy_sticker makes.
MaxWrites == 5

\* user_class NULL
NoClass == "none"
\* The members the model follows, and the two that Spec draws events from.
UserIds == {1, 2, 3}
CoreUsers == {1, 2}
Procs == 1 .. NumProcs
\* Dates are day numbers; the clock starts at day 1, so that no date is NULL.
Days == 1 .. MaxDay
GrantAmounts == {-70, 70}
\* The inputs of the progression commands.
LedgerUsers == {1}
\* The streaks member 1 starts SpecStreak with: around each milestone.
StreakStarts == {0, 5, 6, 28, 29, 98, 99, 363, 364}
LedgerGrants == {-70, 70, 130}
ClassIds == {"joy_keeper", "peasant", "bard"}
HpInputs == {-5, 15, 250}
CommandGrants == {-70, 130}
HpAmounts == {-20, 30, 200}
CoinAmounts == {-7, 7}
\* The inputs of the curve: every XP total just below and at a multiple of 30
\* (every threshold of the curve is one), and every class identifier.
XpInputs == {x \in -1 .. MaxXp : x % 30 \in {0, 29}}
CurveGrants == {-1, 1}
AllClassIds ==
    {"joy_keeper", "chud_warrior", "achievement_hunter", "pit_wizard",
     "gladiator_of_the_pit", "peasant", "bard"}
\* A plausible bug: the yearly milestone is left out.
Mut_Milestones == {7, 30, 100}

\* line 337
Milestones == {7, 30, 100, 365}

Max(a, b) == IF a >= b THEN a ELSE b
Min(a, b) == IF a <= b THEN a ELSE b

\* ------------------------------------------------------- curve calculator
\* A plausible bug: the first tier ends one step early.
Mut_step_cost(lvl) == IF lvl < 16 THEN 60 ELSE IF lvl <= 36 THEN 90 ELSE 120

step_cost(lvl) == IF lvl <= 16 THEN 60 ELSE IF lvl <= 36 THEN 90 ELSE 120

RECURSIVE xp_steps(_, _)
xp_steps(lvl, level) ==
    IF lvl > level THEN 0 ELSE step_cost(lvl) + xp_steps(lvl + 1, level)

calculate_xp_for_level(level) ==
    IF level = 1 THEN 0 ELSE xp_steps(2, level)

RECURSIVE level_loop(_, _)
level_loop(level, xp) ==
    IF calculate_xp_for_level(level + 1) <= xp
    THEN level_loop(level + 1, xp)
    ELSE level

\* A plausible bug: the loop compares with < instead of <=.
Mut_calculate_level_from_xp(xp) == level_loop(1, xp - 1)

calculate_level_from_xp(xp) == level_loop(1, xp)

class_hp ==
    [joy_keeper |-> [base |-> 80, per_level |-> 8],
     chud_warrior |-> [base |-> 120, per_level |-> 12],
     achievement_hunter |-> [base |-> 90, per_level |-> 9],
     pit_wizard |-> [base |-> 70, per_level |-> 7],
     gladiator_of_the_pit |-> [base |-> 110, per_level |-> 11]]

\* A plausible bug: the class formula starts above level 3 instead of at it.
Mut_calculate_max_hp(level, user_class) ==
    IF user_class = NoClass \/ user_class = "peasant" \/ level <= 3
    THEN level * 10
    ELSE IF user_class \in DOMAIN class_hp
         THEN class_hp[user_class].base + (level - 3) * class_hp[user_class].per_level
         ELSE level * 10

calculate_max_hp(level, user_class) ==
    IF user_class = NoClass \/ user_class = "peasant" \/ level < 3
    THEN level * 10
    ELSE IF user_class \in DOMAIN class_hp
         THEN class_hp[user_class].base + (level - 3) * class_hp[user_class].per_level
         ELSE level * 10

\* ---------------------------------------------------------------- database
DefaultUser ==
    [level |-> 1, xp |-> 0, hp |-> 100, max_hp |-> 100, coins |-> 0,
     streak |-> 0, depth |-> 0, user_class |-> NoClass,
     last_joy_sent |-> NULL, last_coin_claim |-> NULL]

InitServerStats == [server_streak |-> 0, last_joy_sent |-> NULL]

EmptyDb ==
    [users |-> << >>, daily_senders |-> EmptyBag, server_stats |-> InitServerStats]

has_user(d, id) == id \in DOMAIN d.users

create_user(d, id) ==
    [d EXCEPT !.users = [x \in DOMAIN d.users \cup {id} |->
                            IF x = id THEN DefaultUser ELSE d.users[x]]]

get_or_create_user(d, id) == IF has_user(d, id) THEN d ELSE create_user(d, id)

\* UPDATE users SET <kw> WHERE discord_id = id: no row, no change.
update_user(d, id, kw) ==
    IF ~has_user(d, id) THEN d
    ELSE LET row == d.users[id]
         IN [d EXCEPT !.users[id] =
                [f \in DOMAIN row |-> IF f \in DOMAIN kw THEN kw[f] ELSE row[f]]]

NoResult ==
    [found |-> FALSE, old_level |-> 0, new_level |-> 0, xp |-> 0,
     leveled_up |-> FALSE, max_hp |-> 0]

\* A plausible bug: a grant raises the level by at most one step.
Mut_add_xp(d, id, xp_amount) ==
    IF ~has_user(d, id) THEN [db |-> d, result |-> NoResult]
    ELSE LET user == d.users[id]
             new_xp == Max(0, user.xp + xp_amount)
             old_level == user.level
             new_level == Min(calculate_level_from_xp(new_xp), old_level + 1)
             new_max_hp == IF new_level # old_level
                           THEN calculate_max_hp(new_level, user.user_class)
                           ELSE user.max_hp
         IN [db |-> update_user(d, id, [xp |-> new_xp, level |-> new_level,
                                        max_hp |-> new_max_hp]),
             result |-> [found |-> TRUE, old_level |-> old_level,
                         new_level |-> new_level, xp |-> new_xp,
                         leveled_up |-> new_level > old_level,
                         max_hp |-> new_max_hp]]

add_xp(d, id, xp_amount) ==
    IF ~has_user(d, id) THEN [db |-> d, result |-> NoResult]
    ELSE LET user == d.users[id]
             new_xp == Max(0, user.xp + xp_amount)
             old_level == user.level
             new_level == calculate_level_from_xp(new_xp)
             new_max_hp == IF new_level # old_level
                           THEN calculate_max_hp(new_level, user.user_class)
                           ELSE user.max_hp
         IN [db |-> update_user(d, id, [xp |-> new_xp, level |-> new_level,
                                        max_hp |-> new_max_hp]),
             result |-> [found |-> TRUE, old_level |-> old_level,
                         new_level |-> new_level, xp |-> new_xp,
                         leveled_up |-> new_level > old_level,
                         max_hp |-> new_max_hp]]

check_daily_sender(d, id, check_date) == BagIn(<<id, check_date>>, d.daily_senders)

\* A plausible bug: the ledger row is never written.
Mut_add_daily_sender(d, id, send_date) == d

\* INSERT ... ON CONFLICT (discord_id, date) DO NOTHING
add_daily_sender(d, id, send_date) ==
    IF BagIn(<<id, send_date>>, d.daily_senders) THEN d
    ELSE [d EXCEPT !.daily_senders = @ (+) SetToBag({<<id, send_date>>})]

get_server_stats(d) == d.server_stats

update_server_stats(d, kw) ==
    [d EXCEPT !.server_stats =
        [f \in DOMAIN @ |-> IF f \in DOMAIN kw THEN kw[f] ELSE @[f]]]

\* ------------------------------------------- handle_joy_sticker, by stretch
(* A task is one running handle_joy_sticker coroutine: its position (pc),  *)
(* its local variables, and three fields of bookkeeping that the code does *)
(* not hold: sent (the chat messages it has begun sending), pre (the       *)
(* database when it started) and intr (the operations on the same user     *)
(* that other handlers and commands ran while it was in flight).           *)
IdleTask ==
    [pc |-> "idle", uid |-> 0, today |-> NULL, user |-> DefaultUser,
     old_streak |-> 0, missed_yesterday |-> FALSE, new_streak |-> 0,
     is_milestone |-> FALSE, old_level |-> 0, new_level |-> 0,
     server_stats |-> InitServerStats, outcome |-> "none",
     sent |-> {}, pre |-> EmptyDb, intr |-> << >>]

\* lines 281-285: the locals after get_or_create_user (d already holds the user).
new_task(d, u, now, pre, intr) ==
    [IdleTask EXCEPT !.uid = u, !.today = now, !.user = d.users[u],
                     !.pre = pre, !.intr = intr]

\* A plausible bug: the double-submission branch also applies the XP loss.
Mut_double_submission(d, u) ==
    add_xp(update_user(d, u, [streak |-> 0]), u, -WrongChannelXpLoss).db

\* lines 290-291: the double-submission branch's write.
double_submission(d, u) == update_user(d, u, [streak |-> 0])

\* lines 309-312
missed_yesterday(user, today, yesterday) ==
    /\ user.last_joy_sent # NULL
    /\ user.last_joy_sent # yesterday
    /\ user.last_joy_sent # today

\* lines 316-317: reset the streak and apply the XP loss.
gap_break(d, u) ==
    add_xp(update_user(d, u, [streak |-> 0]), u, -WrongChannelXpLoss).db

\* A plausible bug: every accepted event restarts the streak at 1.
Mut_new_streak_of(t) == 1

\* line 330: `user` is the dict read at line 285; it is not read again.
new_streak_of(t) == t.user.streak + 1

\* A plausible bug: the reward is added to the XP read at line 285 (a lost update).
Mut_grant_reward(d, t) ==
    LET new_xp == Max(0, t.user.xp + JoyBaseXp)
        new_level == calculate_level_from_xp(new_xp)
    IN  [db |-> update_user(d, t.uid, [xp |-> new_xp, level |-> new_level]),
         result |-> [found |-> has_user(d, t.uid), old_level |-> t.user.level,
                     new_level |-> new_level, xp |-> new_xp,
                     leveled_up |-> new_level > t.user.level,
                     max_hp |-> t.user.max_hp]]

\* lines 340-341
grant_reward(d, t) == add_xp(d, t.uid, JoyBaseXp)

\* lines 345-365, up to the await of line 359 when the community streak breaks.
\* `now` is the clock when this stretch runs: line 348 reads it again.
server_streak_step(d, t, now) ==
    LET server_stats == get_server_stats(d)
        yesterday_date == now - 1
        t1 == [t EXCEPT !.server_stats = server_stats]
    IN  IF server_stats.last_joy_sent # t.today
        THEN IF server_stats.last_joy_sent = yesterday_date
             THEN [db |-> update_server_stats(d,
                              [server_streak |-> server_stats.server_streak + 1,
                               last_joy_sent |-> t.today]),
                   t |-> [t1 EXCEPT !.pc = "await_ok", !.sent = @ \cup {"ok"}]]
             ELSE IF server_stats.server_streak > 0
                  THEN [db |-> d,
                        t |-> [t1 EXCEPT !.pc = "await_server_break",
                                         !.sent = @ \cup {"server_break"}]]
                  ELSE [db |-> update_server_stats(d,
                                   [server_streak |-> 1, last_joy_sent |-> t.today]),
                        t |-> [t1 EXCEPT !.pc = "await_ok", !.sent = @ \cup {"ok"}]]
        ELSE [db |-> d, t |-> [t1 EXCEPT !.pc = "await_ok", !.sent = @ \cup {"ok"}]]

\* line 365 after the await of line 359, then on to the await of line 368.
joy_after_server_break(d, t) ==
    [db |-> update_server_stats(d, [server_streak |-> 1, last_joy_sent |-> t.today]),
     t |-> [t EXCEPT !.pc = "await_ok", !.sent = @ \cup {"ok"}]]

\* lines 326-365: from "Update last sent date" to the next await.  add_xp
\* returns None when the user row is gone, and line 342 then raises.
joy_apply(d, t, now) ==
    LET d1 == update_user(d, t.uid, [last_joy_sent |-> t.today])
        new_streak == new_streak_of(t)
        d2 == update_user(d1, t.uid, [streak |-> new_streak])
        r == grant_reward(d2, t)
        t1 == [t EXCEPT !.new_streak = new_streak,
                        !.is_milestone = new_streak \in Milestones,
                        !.old_level = t.user.level,
                        !.new_level = r.result.new_level]
    IN  IF ~r.result.found
        THEN [db |-> r.db, t |-> [t1 EXCEPT !.pc = "crashed"]]
        ELSE server_streak_step(r.db, t1, now)

\* lines 281-324: from the start to the first await, or through joy_apply
\* when the streak did not break.  t is new_task(...) on d.
\* The handler without the check of line 285, on a ledger without its primary
\* key: every event is taken as the first of its day, and its row is added.
Mut_joy_start(d, t, now) ==
    LET d2 == [d EXCEPT !.daily_senders = @ (+) SetToBag({<<t.uid, t.today>>})]
    IN  IF missed_yesterday(t.user, t.today, now - 1)
        THEN [db |-> gap_break(d2, t.uid),
              t |-> [t EXCEPT !.pc = "await_gap", !.outcome = "gap",
                              !.missed_yesterday = TRUE,
                              !.old_streak = t.user.streak,
                              !.sent = {"gap_break"}]]
        ELSE joy_apply(d2, [t EXCEPT !.outcome = "clean"], now)

joy_start(d, t, now) ==
    LET u == t.uid
        today == t.today
    IN  IF check_daily_sender(d, u, today)
        THEN [db |-> double_submission(d, u),
              t |-> [t EXCEPT !.pc = "await_double", !.outcome = "double",
                              !.old_streak = t.user.streak,
                              !.sent = {"double_break"}]]
        ELSE LET d2 == add_daily_sender(d, u, today)
                 yesterday == now - 1
             IN  IF missed_yesterday(t.user, today, yesterday)
                 THEN [db |-> gap_break(d2, u),
                       t |-> [t EXCEPT !.pc = "await_gap", !.outcome = "gap",
                                       !.missed_yesterday = TRUE,
                                       !.old_streak = t.user.streak,
                                       !.sent = {"gap_break"}]]
                 ELSE joy_apply(d2,
                        [t EXCEPT !.outcome =
                            IF t.user.last_joy_sent = NULL THEN "first"
                            ELSE IF t.user.last_joy_sent = today THEN "today"
                            ELSE "clean"],
                        now)

\* ------------------------------------------------------- storage failures
(* execute_query commits after every statement that is not a fetch, and on  *)
(* an exception rolls back and raises again.  So a handler whose j-th write *)
(* fails leaves its first j - 1 writes committed.  The INSERT of create_user *)
(* is a fetch (RETURNING): it is committed by the next write, and undone by *)
(* the rollback when that write is the one that fails.                      *)

\* The database after each write of lines 326-365, in order, up to the next await.
joy_apply_writes(d, t, now) ==
    LET x1 == update_user(d, t.uid, [last_joy_sent |-> t.today])
        x2 == update_user(x1, t.uid, [streak |-> new_streak_of(t)])
        r == grant_reward(x2, t)
        s == server_streak_step(r.db, t, now)
        \* lines 352 and 365 write; the branch of line 356 awaits first
        server_write == /\ get_server_stats(r.db).last_joy_sent # t.today
                        /\ s.t.pc = "await_ok"
    IN  IF ~r.result.found THEN <<x1, x2>>
        ELSE IF server_write THEN <<x1, x2, r.db, s.db>>
        ELSE <<x1, x2, r.db>>

\* The database after each write of lines 281-324 (and on, when the streak did
\* not break), in order, up to the first await.
joy_start_writes(d, t, now) ==
    IF check_daily_sender(d, t.uid, t.today)
    THEN << double_submission(d, t.uid) >>
    ELSE LET d2 == add_daily_sender(d, t.uid, t.today)
         IN  IF missed_yesterday(t.user, t.today, now - 1)
             THEN <<d2, update_user(d2, t.uid, [streak |-> 0]), gap_break(d2, t.uid)>>
             ELSE <<d2>> \o joy_apply_writes(d2, t, now)

\* What the first j - 1 of the writes ws leave of database d.
before_write(d, ws, j) == IF j = 1 THEN d ELSE ws[j - 1]

\* What server_stats would be with no row in it.
NoServerStats == [none |-> TRUE]

\* reset_all_data, had server_stats been among the tables it truncates.
Mut_reset_all_data(d, done) ==
    [users |-> IF done >= 6 THEN << >> ELSE d.users,
     daily_senders |-> IF done >= 4 THEN EmptyBag ELSE d.daily_senders,
     server_stats |-> IF done >= ResetStatements THEN NoServerStats ELSE d.server_stats]

\* database.py reset_all_data: seven statements, each committed on its own;
\* done is how many of them completed.  The fourth truncates daily_senders,
\* the sixth users, the seventh resets the row of server_stats; the others
\* truncate tables that are not part of this model.
reset_all_data(d, done) ==
    LET d1 == IF done >= 4 THEN [d EXCEPT !.daily_senders = EmptyBag] ELSE d
        d2 == IF done >= 6 THEN [d1 EXCEPT !.users = << >>] ELSE d1
    IN  IF done >= ResetStatements
        THEN update_server_stats(d2, [server_streak |-> 0, last_joy_sent |-> NULL])
        ELSE d2

\* admin.py give_xp, lines 140-141
give_xp(d, u, amount) == add_xp(get_or_create_user(d, u), u, amount)

\* ------------------------------------------------------- the other commands
\* A plausible bug: max_hp is recomputed but the user is not healed.
Mut_set_user_class(d, id, class_name) ==
    IF ~has_user(d, id) THEN d
    ELSE update_user(d, id, [user_class |-> class_name,
                             max_hp |-> calculate_max_hp(d.users[id].level, class_name)])

\* database.py set_user_class: no row, no change (returns None).
set_user_class(d, id, class_name) ==
    IF ~has_user(d, id) THEN d
    ELSE LET new_max_hp == calculate_max_hp(d.users[id].level, class_name)
         IN  update_user(d, id, [user_class |-> class_name,
                                 max_hp |-> new_max_hp, hp |-> new_max_hp])

\* admin.py set_hp, lines 246-248
set_hp(d, u, hp) ==
    LET d0 == get_or_create_user(d, u)
        user == d0.users[u]
    IN  update_user(d0, u, [hp |-> Max(0, Min(hp, user.max_hp))])

\* A plausible bug: the claim adds the coins and does not record the claim date.
Mut_claim_coins(d, u, today) ==
    LET d0 == get_or_create_user(d, u)
        user == d0.users[u]
        coins_earned == user.level * DailyCoinsPerLevel
        new_coins == user.coins + coins_earned
    IN  IF user.last_coin_claim = today
        THEN [db |-> d0, claimed |-> FALSE, coins_earned |-> 0, new_coins |-> user.coins]
        ELSE [db |-> update_user(d0, u, [coins |-> new_coins]),
              claimed |-> TRUE, coins_earned |-> coins_earned, new_coins |-> new_coins]

\* joy_streak_bot.py claim_coins, lines 822-842
claim_coins(d, u, today) ==
    LET d0 == get_or_create_user(d, u)
        user == d0.users[u]
        coins_earned == user.level * DailyCoinsPerLevel
        new_coins == user.coins + coins_earned
    IN  IF user.last_coin_claim = today
        THEN [db |-> d0, claimed |-> FALSE, coins_earned |-> 0, new_coins |-> user.coins]
        ELSE [db |-> update_user(d0, u, [coins |-> new_coins, last_coin_claim |-> today]),
              claimed |-> TRUE, coins_earned |-> coins_earned, new_coins |-> new_coins]

\* database.py damage_user: no row, no change (returns None).
damage_user(d, id, damage) ==
    IF ~has_user(d, id) THEN [db |-> d, result |-> [found |-> FALSE]]
    ELSE LET user == d.users[id]
             new_hp == Max(0, user.hp - damage)
         IN  [db |-> update_user(d, id, [hp |-> new_hp]),
              result |-> [found |-> TRUE, old_hp |-> user.hp, new_hp |-> new_hp,
                          damage |-> damage, died |-> new_hp = 0]]

\* database.py heal_user: no row, no change (returns None).
heal_user(d, id, amount) ==
    IF ~has_user(d, id) THEN [db |-> d, result |-> [found |-> FALSE]]
    ELSE LET user == d.users[id]
             new_hp == Min(user.max_hp, user.hp + amount)
         IN  [db |-> update_user(d, id, [hp |-> new_hp]),
              result |-> [found |-> TRUE, old_hp |-> user.hp, new_hp |-> new_hp,
                          healed |-> new_hp - user.hp]]

\* admin.py give_coins, lines 175-177
give_coins(d, u, amount) ==
    LET d0 == get_or_create_user(d, u)
        new_coins == d0.users[u].coins + amount
    IN  [db |-> update_user(d0, u, [coins |-> new_coins]), new_coins |-> new_coins]

\* on_message, line 268: the penalty for a Joy sticker in the wrong channel is
\* add_xp on the author's id, with no get_or_create_user before it.
wrong_channel_joy(d, u) == add_xp(d, u, -WrongChannelXpLoss)

\* A plausible bug: the command also clears every user's last_joy_sent.
Mut_force_new_day(d) ==
    [d EXCEPT !.daily_senders = EmptyBag,
              !.users = [x \in DOMAIN @ |-> [@[x] EXCEPT !.last_coin_claim = NULL,
                                                         !.last_joy_sent = NULL]]]

\* admin.py force_new_day, lines 453-456
force_new_day(d) ==
    [d EXCEPT !.daily_senders = EmptyBag,
              !.users = [x \in DOMAIN @ |-> [@[x] EXCEPT !.last_coin_claim = NULL]]]

\* A plausible bug: the reset clears the progress of the row and keeps the row.
Mut_reset_user(d, id) ==
    update_user(d, id, [level |-> 1, xp |-> 0, streak |-> 0, last_joy_sent |-> NULL])

\* database.py reset_user: DELETE FROM users WHERE discord_id = id, and nothing else.
reset_user(d, id) ==
    [d EXCEPT !.users = [x \in DOMAIN @ \ {id} |-> @[x]]]

\* -------------------------------------------------------------------- state
VARIABLES
    users,          \* table users: discord_id -> row (the rows that exist)
    daily_senders,  \* table daily_senders: the bag of rows (discord_id, date)
    server_stats,   \* table server_stats: the row with id = 1
    clock,          \* the date get_today_date() returns now
    tasks,          \* the handle_joy_sticker coroutines, by slot
    ops,            \* how many events and commands have been started
    tally,          \* per (user, day): events started, accepted, doubled, streak
                    \* increments, coin claims granted, and how often
                    \* force_new_day or reset_user cleared the user's claim date
    reply           \* the last event or command started, and what a command
                    \* reported to its caller (an event's messages are in tasks)

vars == <<users, daily_senders, server_stats, clock, tasks, ops, tally, reply>>

DB == [users |-> users, daily_senders |-> daily_senders, server_stats |-> server_stats]

Commit(d) ==
    /\ users' = d.users
    /\ daily_senders' = d.daily_senders
    /\ server_stats' = d.server_stats

ZeroTally ==
    [started |-> 0, accepted |-> 0, doubled |-> 0, incs |-> 0, claimed |-> 0,
     reopened |-> 0]

NoReply == [op |-> "none"]

\* init_database on an empty store: no users, no ledger rows, server_stats (0, NULL).
Init ==
    /\ users = << >>
    /\ daily_senders = EmptyBag
    /\ server_stats = InitServerStats
    /\ clock = 1
    /\ tasks = [p \in Procs |-> IdleTask]
    /\ ops = 0
    /\ tally = [k \in UserIds \X Days |-> ZeroTally]
    /\ reply = NoReply

InFlight(t) == t.pc # "idle"

\* Another operation on user u ran while task t was in flight.
Interfered(t, u, what) ==
    IF InFlight(t) /\ t.uid = u
    THEN [t EXCEPT !.intr = Append(@, [op |-> what.op, amt |-> what.amt,
                                      today |-> what.today, at |-> t.pc])]
    ELSE t

\* Slots only name the running coroutines: a new one takes the lowest free slot.
FreeSlot(p) ==
    /\ tasks[p].pc = "idle"
    /\ \A q \in Procs : q < p => tasks[q].pc # "idle"

Incs(t0, t1) == IF t0.pc \in {"idle", "await_gap"} /\ t1.pc \notin {"await_gap", "await_double"}
                THEN 1 ELSE 0

\* on_message -> handle_joy_sticker, lines 271, 281-324 (and on, with no break).
JoyStart(p, u, limit) ==
    /\ ops < limit
    /\ FreeSlot(p)
    /\ LET d0 == get_or_create_user(DB, u)
           overlap == IF \E q \in Procs : tasks[q].pc = "await_gap" /\ tasks[q].uid = u
                      THEN << [op |-> "overlap", amt |-> 0, today |-> clock, at |-> "idle"] >>
                      ELSE << >>
           r == joy_start(d0, new_task(d0, u, clock, DB, overlap), clock)
           what == [op |-> IF r.t.outcome = "double" THEN "double" ELSE "joy",
                    amt |-> 0, today |-> clock]
       IN  /\ Commit(r.db)
           /\ tasks' = [q \in Procs |->
                          IF q = p THEN r.t ELSE Interfered(tasks[q], u, what)]
           /\ tally' = [tally EXCEPT ![<<u, clock>>] =
                          [@ EXCEPT
                           !.started = @ + 1,
                           !.accepted = @ + (IF r.t.outcome = "double" THEN 0 ELSE 1),
                           !.doubled = @ + (IF r.t.outcome = "double" THEN 1 ELSE 0),
                           !.incs = @ + Incs(IdleTask, r.t)]]
    /\ reply' = [op |-> "joy"]
    /\ ops' = ops + 1
    /\ UNCHANGED clock

\* handle_joy_sticker resumed after the await of line 319: lines 326-365.
JoyAfterGap(p) ==
    /\ tasks[p].pc = "await_gap"
    /\ LET t == tasks[p]
           r == joy_apply(DB, t, clock)
           what == [op |-> "joy_resume", amt |-> 0, today |-> t.today]
       IN  /\ Commit(r.db)
           /\ tasks' = [q \in Procs |->
                          IF q = p THEN r.t ELSE Interfered(tasks[q], t.uid, what)]
           /\ tally' = [tally EXCEPT ![<<t.uid, t.today>>].incs = @ + Incs(t, r.t)]
    /\ UNCHANGED <<clock, ops, reply>>

\* handle_joy_sticker resumed after the await of line 359: line 365.
JoyAfterServerBreak(p) ==
    /\ tasks[p].pc = "await_server_break"
    /\ LET r == joy_after_server_break(DB, tasks[p])
       IN  /\ Commit(r.db)
           /\ tasks' = [tasks EXCEPT ![p] = r.t]
    /\ UNCHANGED <<clock, ops, tally, reply>>

\* The handler returns: after lines 293-300, after lines 368-410, or by the
\* exception of line 342.  Nothing after these awaits touches the database.
JoyFinish(p) ==
    /\ tasks[p].pc \in {"await_double", "await_ok", "crashed"}
    /\ tasks' = [tasks EXCEPT ![p] = IdleTask]
    /\ UNCHANGED <<users, daily_senders, server_stats, clock, ops, tally, reply>>

\* handle_joy_sticker from its start, when its j-th write fails: the exception
\* leaves the handler (nothing in it or in on_message catches it).
JoyStartFails(p, u, j, limit) ==
    /\ ops < limit
    /\ FreeSlot(p)
    /\ LET d0 == get_or_create_user(DB, u)
           t0 == new_task(d0, u, clock, DB, << >>)
           ws == joy_start_writes(d0, t0, clock)
           registered == j >= 2 /\ ~check_daily_sender(d0, u, clock)
       IN  /\ j \in 1 .. Len(ws)
           /\ Commit(before_write(DB, ws, j))
           /\ tasks' = [q \in Procs |->
                          IF q = p
                          THEN [t0 EXCEPT !.pc = "crashed", !.outcome = "storage_failure"]
                          ELSE Interfered(tasks[q], u,
                                          [op |-> "joy_failed", amt |-> 0, today |-> clock])]
           /\ tally' = [tally EXCEPT ![<<u, clock>>] =
                          [@ EXCEPT !.started = @ + 1,
                                    !.accepted = @ + (IF registered THEN 1 ELSE 0)]]
    /\ reply' = [op |-> "joy"]
    /\ ops' = ops + 1
    /\ UNCHANGED clock

\* handle_joy_sticker resumed after the await of line 319, when its j-th write fails.
JoyAfterGapFails(p, j) ==
    /\ tasks[p].pc = "await_gap"
    /\ LET t == tasks[p]
           ws == joy_apply_writes(DB, t, clock)
       IN  /\ j \in 1 .. Len(ws)
           /\ Commit(before_write(DB, ws, j))
           /\ tasks' = [q \in Procs |->
                          IF q = p
                          THEN [t EXCEPT !.pc = "crashed", !.outcome = "storage_failure"]
                          ELSE Interfered(tasks[q], t.uid,
                                          [op |-> "joy_failed", amt |-> 0, today |-> t.today])]
    /\ UNCHANGED <<clock, ops, tally, reply>>

\* handle_joy_sticker resumed after the await of line 359, when the write of
\* line 365 fails.
JoyAfterServerBreakFails(p) ==
    /\ tasks[p].pc = "await_server_break"
    /\ tasks' = [tasks EXCEPT ![p] = [@ EXCEPT !.pc = "crashed",
                                                !.outcome = "storage_failure"]]
    /\ UNCHANGED <<users, daily_senders, server_stats, clock, ops, tally, reply>>

\* admin.py reset_all once confirmed, lines 76-77: reset_all_data, of which done
\* statements complete; the command reports success or "Reset failed".
ResetAll(done, limit) ==
    /\ ops < limit
    /\ Commit(reset_all_data(DB, done))
    /\ reply' = [op |-> "reset_all", ok |-> done = ResetStatements, done |-> done]
    /\ tasks' = [q \in Procs |->
                   Interfered(tasks[q], tasks[q].uid,
                              [op |-> "reset_all", amt |-> 0, today |-> clock])]
    /\ tally' = [k \in DOMAIN tally |->
                   IF k[2] = clock /\ done >= 6
                   THEN [tally[k] EXCEPT !.reopened = @ + 1]
                   ELSE tally[k]]
    /\ ops' = ops + 1
    /\ UNCHANGED clock

\* admin.py give_xp: lines 140-141 run without an await between them; the
\* embed of lines 143-156 reports the result of add_xp.
GiveXp(u, amount, limit) ==
    /\ ops < limit
    /\ Commit(give_xp(DB, u, amount).db)
    /\ reply' = [op |-> "give_xp", uid |-> u, amount |-> amount,
                 result |-> give_xp(DB, u, amount).result]
    /\ tasks' = [q \in Procs |->
                   Interfered(tasks[q], u, [op |-> "give_xp", amt |-> amount, today |-> clock])]
    /\ ops' = ops + 1
    /\ UNCHANGED <<clock, tally>>

\* ClassSelectionView callback, lines 168-172: set_user_class, then the embed
\* is built from get_user(...)['level'], which raises when the row is missing.
SetClass(u, class_name, limit) ==
    /\ ops < limit
    /\ Commit(set_user_class(DB, u, class_name))
    /\ reply' = [op |-> "set_class", uid |-> u, class_name |-> class_name,
                 ok |-> has_user(DB, u)]
    /\ tasks' = [q \in Procs |->
                   Interfered(tasks[q], u, [op |-> "set_class", amt |-> 0, today |-> clock])]
    /\ ops' = ops + 1
    /\ UNCHANGED <<clock, tally>>

\* admin.py set_hp: lines 246-248 run without an await between them.
SetHp(u, hp, limit) ==
    /\ ops < limit
    /\ Commit(set_hp(DB, u, hp))
    /\ reply' = [op |-> "set_hp", uid |-> u, hp |-> hp]
    /\ tasks' = [q \in Procs |->
                   Interfered(tasks[q], u, [op |-> "set_hp", amt |-> hp, today |-> clock])]
    /\ ops' = ops + 1
    /\ UNCHANGED <<clock, tally>>

\* claim_coins in the bot_commands channel: lines 822-842 run without an await
\* between them; the messages of lines 830 and 857 report the outcome.
ClaimCoins(u, limit) ==
    /\ ops < limit
    /\ LET r == claim_coins(DB, u, clock)
       IN  /\ Commit(r.db)
           /\ reply' = [op |-> "claim", uid |-> u, claimed |-> r.claimed,
                        coins_earned |-> r.coins_earned, new_coins |-> r.new_coins]
           /\ tally' = [tally EXCEPT ![<<u, clock>>].claimed =
                          @ + (IF r.claimed THEN 1 ELSE 0)]
    /\ tasks' = [q \in Procs |->
                   Interfered(tasks[q], u, [op |-> "claim", amt |-> 0, today |-> clock])]
    /\ ops' = ops + 1
    /\ UNCHANGED clock

\* on_message, lines 261-269: the notice is sent, then line 268 runs.
WrongChannelJoy(u, limit) ==
    /\ ops < limit
    /\ LET r == wrong_channel_joy(DB, u)
       IN  /\ Commit(r.db)
           /\ reply' = [op |-> "wrong_channel", uid |-> u, result |-> r.result]
    /\ tasks' = [q \in Procs |->
                   Interfered(tasks[q], u, [op |-> "give_xp", amt |-> -WrongChannelXpLoss,
                                            today |-> clock])]
    /\ ops' = ops + 1
    /\ UNCHANGED <<clock, tally>>

\* A call of db.damage_user.
DamageUser(u, damage, limit) ==
    /\ ops < limit
    /\ LET r == damage_user(DB, u, damage)
       IN  /\ Commit(r.db)
           /\ reply' = [op |-> "damage", uid |-> u, amount |-> damage, result |-> r.result]
    /\ tasks' = [q \in Procs |->
                   Interfered(tasks[q], u, [op |-> "damage", amt |-> damage, today |-> clock])]
    /\ ops' = ops + 1
    /\ UNCHANGED <<clock, tally>>

\* A call of db.heal_user.
HealUser(u, amount, limit) ==
    /\ ops < limit
    /\ LET r == heal_user(DB, u, amount)
       IN  /\ Commit(r.db)
           /\ reply' = [op |-> "heal", uid |-> u, amount |-> amount, result |-> r.result]
    /\ tasks' = [q \in Procs |->
                   Interfered(tasks[q], u, [op |-> "heal", amt |-> amount, today |-> clock])]
    /\ ops' = ops + 1
    /\ UNCHANGED <<clock, tally>>

\* admin.py give_coins: lines 175-177 run without an await between them.
GiveCoins(u, amount, limit) ==
    /\ ops < limit
    /\ LET r == give_coins(DB, u, amount)
       IN  /\ Commit(r.db)
           /\ reply' = [op |-> "give_coins", uid |-> u, amount |-> amount,
                        new_coins |-> r.new_coins]
    /\ tasks' = [q \in Procs |->
                   Interfered(tasks[q], u, [op |-> "give_coins", amt |-> amount,
                                            today |-> clock])]
    /\ ops' = ops + 1
    /\ UNCHANGED <<clock, tally>>

\* admin.py force_new_day: the two statements of lines 453 and 456.
ForceNewDay(limit) ==
    /\ ops < limit
    /\ Commit(force_new_day(DB))
    /\ reply' = [op |-> "newday"]
    /\ tasks' = [q \in Procs |->
                   Interfered(tasks[q], tasks[q].uid,
                              [op |-> "newday", amt |-> 0, today |-> clock])]
    /\ tally' = [k \in DOMAIN tally |->
                   IF k[2] = clock THEN [tally[k] EXCEPT !.reopened = @ + 1]
                   ELSE tally[k]]
    /\ ops' = ops + 1
    /\ UNCHANGED clock

\* admin.py reset_user, line 111
ResetUser(u, limit) ==
    /\ ops < limit
    /\ Commit(reset_user(DB, u))
    /\ reply' = [op |-> "reset_user", uid |-> u]
    /\ tasks' = [q \in Procs |->
                   Interfered(tasks[q], u, [op |-> "reset_user", amt |-> 0, today |-> clock])]
    /\ tally' = [tally EXCEPT ![<<u, clock>>].reopened = @ + 1]
    /\ ops' = ops + 1
    /\ UNCHANGED clock

\* Midnight in the configured timezone: get_today_date() returns the next day.
AdvanceDay ==
    /\ clock < MaxDay
    /\ clock' = clock + 1
    /\ UNCHANGED <<users, daily_senders, server_stats, tasks, ops, tally, reply>>

Joy == \E p \in Procs, u \in CoreUsers : JoyStart(p, u, MaxOps)
AfterGap == \E p \in Procs : JoyAfterGap(p)
AfterServerBreak == \E p \in Procs : JoyAfterServerBreak(p)
Finish == \E p \in Procs : JoyFinish(p)
Grant == \E u \in CoreUsers, a \in GrantAmounts : GiveXp(u, a, MaxOps)

\* Two members, qualifying events and XP grants.
Next == Joy \/ AfterGap \/ AfterServerBreak \/ Finish \/ Grant \/ AdvanceDay

Spec == Init /\ [][Next]_vars

CommunityJoy == \E p \in Procs, u \in UserIds : JoyStart(p, u, MaxCommunityOps)

\* Three members, qualifying events only.
NextCommunity ==
    CommunityJoy \/ AfterGap \/ AfterServerBreak \/ Finish \/ AdvanceDay

SpecCommunity == Init /\ [][NextCommunity]_vars

LedgerJoy == \E p \in Procs, u \in LedgerUsers : JoyStart(p, u, MaxLedgerOps)
LedgerGrant == \E u \in LedgerUsers, a \in LedgerGrants : GiveXp(u, a, MaxLedgerOps)
AssignClass == \E u \in LedgerUsers, c \in ClassIds : SetClass(u, c, MaxLedgerOps)
SetHpCmd == \E u \in LedgerUsers, hp \in HpInputs : SetHp(u, hp, MaxLedgerOps)
Claim == \E u \in LedgerUsers : ClaimCoins(u, MaxLedgerOps)
NewDay == ForceNewDay(MaxLedgerOps)
Reset == \E u \in LedgerUsers : ResetUser(u, MaxLedgerOps)

\* One member: qualifying events, and the commands that change the member's row.
NextLedger ==
    \/ LedgerJoy \/ AfterGap \/ AfterServerBreak \/ Finish
    \/ LedgerGrant \/ AssignClass \/ SetHpCmd \/ Claim \/ NewDay \/ Reset
    \/ AdvanceDay

SpecLedger == Init /\ [][NextLedger]_vars

CommandJoy == \E p \in Procs, u \in LedgerUsers : JoyStart(p, u, MaxCommandOps)
CommandWrongChannel == \E u \in LedgerUsers : WrongChannelJoy(u, MaxCommandOps)
CommandGrant == \E u \in LedgerUsers, a \in CommandGrants : GiveXp(u, a, MaxCommandOps)
CommandDamage == \E u \in LedgerUsers, a \in HpAmounts : DamageUser(u, a, MaxCommandOps)
CommandHeal == \E u \in LedgerUsers, a \in HpAmounts : HealUser(u, a, MaxCommandOps)
CommandClass == \E u \in LedgerUsers : SetClass(u, "joy_keeper", MaxCommandOps)
CommandClaim == \E u \in LedgerUsers : ClaimCoins(u, MaxCommandOps)
CommandCoins == \E u \in LedgerUsers, a \in CoinAmounts : GiveCoins(u, a, MaxCommandOps)
CommandReset == \E u \in LedgerUsers : ResetUser(u, MaxCommandOps)

\* One member: every operation that is scoped to a user.
NextCommands ==
    \/ CommandJoy \/ AfterGap \/ AfterServerBreak \/ Finish
    \/ CommandWrongChannel \/ CommandGrant \/ CommandDamage \/ CommandHeal
    \/ CommandClass \/ CommandClaim \/ CommandCoins \/ CommandReset
    \/ AdvanceDay

SpecCommands == Init /\ [][NextCommands]_vars

\* The event loop resumes every suspended handler once what it awaits (a
\* reaction or a message being sent) is done.
SpecCommandsLive ==
    /\ Init /\ [][NextCommands]_vars
    /\ WF_vars(AfterGap) /\ WF_vars(AfterServerBreak) /\ WF_vars(Finish)

FaultJoy == \E p \in Procs, u \in LedgerUsers : JoyStart(p, u, MaxFaultOps)
FaultJoyFails ==
    \E p \in Procs, u \in LedgerUsers, j \in 1 .. MaxWrites : JoyStartFails(p, u, j, MaxFaultOps)
AfterGapFails == \E p \in Procs, j \in 1 .. MaxWrites : JoyAfterGapFails(p, j)
AfterServerBreakFails == \E p \in Procs : JoyAfterServerBreakFails(p)
FaultResetAll == \E done \in 0 .. ResetStatements : ResetAll(done, MaxFaultOps)

\* One member: qualifying events and the global reset, with storage failures.
NextFaults ==
    \/ FaultJoy \/ AfterGap \/ AfterServerBreak \/ Finish
    \/ FaultJoyFails \/ AfterGapFails \/ AfterServerBreakFails
    \/ FaultResetAll \/ AdvanceDay

SpecFaults == Init /\ [][NextFaults]_vars

ResetJoy == \E p \in Procs, u \in LedgerUsers : JoyStart(p, u, MaxResetOps)
GlobalReset == \E done \in 0 .. ResetStatements : ResetAll(done, MaxResetOps)

\* One member: qualifying events and the global reset, over more days.
NextReset ==
    \/ ResetJoy \/ AfterGap \/ AfterServerBreak \/ Finish
    \/ GlobalReset \/ AdvanceDay

SpecReset == Init /\ [][NextReset]_vars

\* The store after one admin grant of x XP to member 1, x drawn from XpInputs.
InitCurve ==
    /\ \E x \in XpInputs :
          /\ users = give_xp(EmptyDb, 1, x).db.users
          /\ reply = [op |-> "give_xp", uid |-> 1, amount |-> x,
                      result |-> give_xp(EmptyDb, 1, x).result]
    /\ daily_senders = EmptyBag
    /\ server_stats = InitServerStats
    /\ clock = 1
    /\ tasks = [p \in Procs |-> IdleTask]
    /\ ops = 0
    /\ tally = [k \in UserIds \X Days |-> ZeroTally]

CurveGrant == \E a \in CurveGrants : GiveXp(1, a, MaxCurveOps)
CurveClass == \E c \in AllClassIds : SetClass(1, c, MaxCurveOps)

\* The curve calculator on its inputs: XP totals, small grants, class assignments.
NextCurve == CurveGrant \/ CurveClass

SpecCurve == InitCurve /\ [][NextCurve]_vars

\* ------------------------------------------------------- serial executions
\* handle_joy_sticker run from start to end with nothing interleaved, on date today.
joy_serial(d, u, today) ==
    LET d0 == get_or_create_user(d, u)
        r1 == joy_start(d0, new_task(d0, u, today, EmptyDb, << >>), today)
        r2 == IF r1.t.pc = "await_gap" THEN joy_apply(r1.db, r1.t, today) ELSE r1
    IN  IF r2.t.pc = "await_server_break"
        THEN joy_after_server_break(r2.db, r2.t)
        ELSE r2

\* One round on day 1: member 1's event is accepted; an administrator takes
\* the reward back (give_xp of -joy_base_xp) and forces a new day.
streak_round(d) == force_new_day(give_xp(joy_serial(d, 1, 1).db, 1, -JoyBaseXp).db)

\* The store n rounds leave: member 1 at streak n, level 1, last event on day 1.
streak_state(n) ==
    IF n = 0 THEN EmptyDb
    ELSE [users |-> [x \in {1} |-> [DefaultUser EXCEPT !.streak = n, !.last_joy_sent = 1]],
          daily_senders |-> EmptyBag,
          server_stats |-> [server_streak |-> 1, last_joy_sent |-> 1]]

\* Round k takes streak_state(k - 1) to streak_state(k).
is_round(k) ==
    LET r == streak_round(streak_state(k - 1))
        e == streak_state(k)
    IN  /\ r.users = e.users
        /\ r.daily_senders = e.daily_senders
        /\ r.server_stats = e.server_stats

\* Member 1 has a streak of n behind them, built round by round.
InitStreak ==
    /\ \E n \in StreakStarts :
          /\ {k \in 1 .. n : ~is_round(k)} = {}
          /\ users = streak_state(n).users
          /\ daily_senders = streak_state(n).daily_senders
          /\ server_stats = streak_state(n).server_stats
    /\ clock = 1
    /\ tasks = [p \in Procs |-> IdleTask]
    /\ ops = 0
    /\ tally = [k \in UserIds \X Days |-> ZeroTally]
    /\ reply = NoReply

StreakJoy == \E p \in Procs, u \in LedgerUsers : JoyStart(p, u, MaxStreakOps)
StreakNewDay == ForceNewDay(MaxStreakOps)

\* One member with a long streak behind them: events, forced new days, days.
NextStreak ==
    \/ StreakJoy \/ AfterGap \/ AfterServerBreak \/ Finish
    \/ StreakNewDay \/ AdvanceDay

SpecStreak == InitStreak /\ [][NextStreak]_vars

\* A sequence of operations run one after the other from database d; ok says
\* that every qualifying event had the outcome it is listed with.
RECURSIVE run_serial(_, _)
run_serial(d, os) ==
    IF os = << >> THEN [db |-> d, ok |-> TRUE]
    ELSE LET o == Head(os)
         IN  IF o.op = "give_xp"
             THEN run_serial(give_xp(d, o.uid, o.amt).db, Tail(os))
             ELSE LET r == joy_serial(d, o.uid, o.today)
                      rest == run_serial(r.db, Tail(os))
                  IN  [db |-> rest.db, ok |-> rest.ok /\ r.t.outcome = o.expect]

\* The operations of task t's flight: its own event and what interleaved with it.
OpsOf(t) ==
    << [op |-> "joy", uid |-> t.uid, amt |-> 0, today |-> t.today, expect |-> t.outcome] >>
    \o [i \in 1 .. Len(t.intr) |->
          [op |-> IF t.intr[i].op = "give_xp" THEN "give_xp" ELSE "joy",
           uid |-> t.uid, amt |-> t.intr[i].amt, today |-> t.intr[i].today,
           expect |-> t.intr[i].op]]

Perms(n) == {f \in [1 .. n -> 1 .. n] : \A i, j \in 1 .. n : f[i] = f[j] => i = j}

Permuted(os, f) == [i \in 1 .. Len(os) |-> os[f[i]]]

\* Every interleaved operation ran in one uninterrupted stretch.
AtomicOnly(t) ==
    \A i \in 1 .. Len(t.intr) : t.intr[i].op \in {"give_xp", "double"}

\* The task's writes to its user's row are all done.
UserSettled(t) == t.pc \in {"await_ok", "await_server_break"}

Proj(row) == <<row.streak, row.xp, row.level, row.last_joy_sent>>

\* ------------------------------------------------------------------ claims

\* C1: of the qualifying events of one user on one day, however their handlers
\* interleave, exactly one is accepted as first of the day and all the others
\* take the double-submission outcome; the streak is incremented at most once.
C1_OneAcceptedPerDay ==
    \A k \in UserIds \X Days :
        /\ tally[k].accepted <= 1
        /\ tally[k].incs <= 1
        /\ tally[k].started >= 1 => tally[k].accepted = 1
        /\ tally[k].doubled = tally[k].started - tally[k].accepted

\* Two handlers of one user and day in flight at once: the accepted one is
\* suspended at its break notification, the other took the double-submission branch.
C1_Witness ==
    \E p, q \in Procs :
        /\ tasks[p].pc = "await_gap" /\ tasks[q].pc = "await_double"
        /\ tasks[p].uid = tasks[q].uid /\ tasks[p].today = tasks[q].today
        /\ tally[<<tasks[p].uid, tasks[p].today>>].started >= 2

\* C2: the operations on one user are serializable: once an accepted event has
\* done its writes to the user's row, and only uninterrupted operations (XP
\* grants, double-submissions) ran on that user during its flight, the row's
\* streak, xp, level and last_joy_sent are those of some serial execution of
\* the same operations with the same outcomes.
C2_PerUserSerializable ==
    \A p \in Procs :
        LET t == tasks[p]
            os == OpsOf(t)
        IN  (UserSettled(t) /\ AtomicOnly(t) /\ has_user(DB, t.uid)) =>
                \E f \in Perms(Len(os)) :
                    LET r == run_serial(t.pre, Permuted(os, f))
                    IN  /\ r.ok
                        /\ Proj(r.db.users[t.uid]) = Proj(users[t.uid])

\* C3: when server_stats.last_joy_sent was yesterday as the first of them
\* started (and so yesterday or today as the second started), two accepted
\* events of different users on the same day, both done, and no later event,
\* leave the community streak one higher and last_joy_sent equal to that day.
C3_AggregateIdempotent ==
    \A p, q \in Procs :
        LET t == tasks[p]
            s == tasks[q]
        IN  ( /\ t.pc = "await_ok" /\ s.pc = "await_ok"
              /\ t.uid # s.uid /\ t.today = s.today
              /\ t.outcome # "double" /\ s.outcome # "double"
              /\ t.pre.server_stats.last_joy_sent = t.today - 1
              /\ s.pre.server_stats.last_joy_sent \in {t.today - 1, t.today}
              /\ \A k \in UserIds \X Days : k[2] > t.today => tally[k].started = 0 )
            => server_stats =
                 [server_streak |-> t.pre.server_stats.server_streak + 1,
                  last_joy_sent |-> t.today]

\* C4: two events of different users on one day are never both between the
\* read of server_stats that found the day not yet advanced and their own
\* break transition.
C4_AggregateCriticalSection ==
    \A p, q \in Procs :
        ~ ( /\ p # q
            /\ tasks[p].pc = "await_server_break" /\ tasks[q].pc = "await_server_break"
            /\ tasks[p].uid # tasks[q].uid /\ tasks[p].today = tasks[q].today )

\* C5: once a handler has begun sending a chat message, no later stretch of it
\* writes to users, daily_senders or server_stats.
C5_SendAfterCommit ==
    [][\A p \in Procs :
          (tasks[p].sent # {} /\ tasks'[p].pc # tasks[p].pc)
              => UNCHANGED <<users, daily_senders, server_stats>>]_vars

\* C6: a member's XP grant that ran while an event of the same member was in
\* flight, and nothing else on that member: once the event's writes to the row
\* are done, xp is what one of the two serial orders gives and level is
\* calculate_level_from_xp(xp).
C6_NoLostXp ==
    \A p \in Procs :
        LET t == tasks[p]
            ev == [op |-> "joy", uid |-> t.uid, amt |-> 0, today |-> t.today,
                   expect |-> t.outcome]
            gr == [op |-> "give_xp", uid |-> t.uid, amt |-> t.intr[1].amt,
                   today |-> t.today, expect |-> "give_xp"]
        IN  ( /\ t.pc \in {"await_ok", "await_server_break", "await_double"}
              /\ Len(t.intr) = 1 /\ t.intr[1].op = "give_xp" ) =>
                /\ users[t.uid].xp \in
                       {run_serial(t.pre, <<ev, gr>>).db.users[t.uid].xp,
                        run_serial(t.pre, <<gr, ev>>).db.users[t.uid].xp}
                /\ users[t.uid].level = calculate_level_from_xp(users[t.uid].xp)

\* A grant ran while a gap-break event was suspended at its notification,
\* between the penalty and the reward, and the event has since applied the reward.
C6_Witness ==
    \E p \in Procs :
        /\ UserSettled(tasks[p]) /\ tasks[p].outcome = "gap"
        /\ Len(tasks[p].intr) = 1
        /\ tasks[p].intr[1].op = "give_xp" /\ tasks[p].intr[1].at = "await_gap"

\* C7: when an event's date is earlier than the last_joy_sent recorded for its
\* user, the stretch of the handler that would apply it to the user (from the
\* start, or from the break notification on) changes nothing in the database.
C7_StaleEventRejected ==
    [][\A p \in Procs :
          ( /\ tasks[p].pc \in {"idle", "await_gap"}
            /\ tasks'[p].pc # tasks[p].pc /\ tasks'[p].pc # "idle"
            /\ has_user(DB, tasks'[p].uid)
            /\ users[tasks'[p].uid].last_joy_sent > tasks'[p].today )
              => UNCHANGED <<users, daily_senders, server_stats>>]_vars

\* C8: a gap-break event with nothing interleaved leaves the streak at exactly
\* 1, the penalty subtracted (clamped at 0) before the reward, and has sent the
\* break notification.
C8_GapBreak ==
    \A p \in Procs :
        LET t == tasks[p]
        IN  (UserSettled(t) /\ t.outcome = "gap" /\ t.intr = << >>) =>
                /\ users[t.uid].streak = 1
                /\ users[t.uid].xp = Max(0, t.user.xp - WrongChannelXpLoss) + JoyBaseXp
                /\ "gap_break" \in t.sent

\* A stretch that starts an event of user u in slot p.
Starts(p, u) ==
    tasks[p].pc = "idle" /\ tasks'[p].pc # "idle" /\ tasks'[p].uid = u

\* C9: an event of a user for whom the ledger already holds (user, today) takes
\* the double-submission branch and changes one thing: the user's streak
\* becomes 0.  xp, level, last_joy_sent, the ledger and server_stats are as
\* before; so a second double-submission changes nothing at all.
C9_DoubleSubmission ==
    [][\A p \in Procs, u \in UserIds :
          (Starts(p, u) /\ has_user(DB, u) /\ BagIn(<<u, clock>>, daily_senders)) =>
              /\ tasks'[p].outcome = "double"
              /\ tasks'[p].pc = "await_double"
              /\ users' = [users EXCEPT ![u].streak = 0]
              /\ daily_senders' = daily_senders
              /\ server_stats' = server_stats]_vars

\* A double-submission by a user whose streak was positive has been applied.
C9_Witness ==
    \E p \in Procs :
        /\ tasks[p].pc = "await_double" /\ tasks[p].user.streak > 0
        /\ users[tasks[p].uid].streak = 0

\* C10: an accepted event (the ledger did not hold (user, today)) of a user
\* whose last_joy_sent is yesterday: the streak goes up by one, xp by the
\* reward, last_joy_sent becomes today and the ledger gains (user, today).
C10_CleanContinuation ==
    [][\A p \in Procs, u \in UserIds :
          ( /\ Starts(p, u) /\ has_user(DB, u)
            /\ ~BagIn(<<u, clock>>, daily_senders)
            /\ users[u].last_joy_sent = clock - 1 ) =>
              /\ tasks'[p].outcome = "clean"
              /\ users'[u].streak = users[u].streak + 1
              /\ users'[u].xp = users[u].xp + JoyBaseXp
              /\ users'[u].last_joy_sent = clock
              /\ daily_senders' = daily_senders (+) SetToBag({<<u, clock>>})]_vars

\* A clean continuation from a positive streak has been applied.
C10_Witness ==
    \E p \in Procs :
        /\ tasks[p].outcome = "clean" /\ tasks[p].user.streak > 0
        /\ tasks[p].new_streak = tasks[p].user.streak + 1
        /\ users[tasks[p].uid].last_joy_sent = tasks[p].today

\* C11: an event of a user who has no last_joy_sent (no row yet, or a row that
\* holds NULL) is not treated as a break: no break notification, no penalty,
\* the streak becomes 1 and the reward is granted.
C11_FirstEverEvent ==
    [][\A p \in Procs, u \in UserIds :
          ( /\ Starts(p, u)
            /\ (has_user(DB, u) => users[u].last_joy_sent = NULL) ) =>
              /\ tasks'[p].outcome = "first"
              /\ tasks'[p].sent \cap {"gap_break", "double_break"} = {}
              /\ users'[u].streak = 1
              /\ users'[u].xp = get_or_create_user(DB, u).users[u].xp + JoyBaseXp
              /\ users'[u].last_joy_sent = clock]_vars

\* The stretch of slot p that runs the community step of lines 344-365 for an
\* accepted event: from the start, or from the break notification on.
AggregateStep(p) ==
    /\ tasks[p].pc \in {"idle", "await_gap"}
    /\ tasks'[p].pc \in {"await_ok", "await_server_break"}

\* C12: the community step of an accepted event dated today, on the
\* server_stats it reads: last_joy_sent = today leaves the row unchanged;
\* last_joy_sent = today - 1 gives streak + 1 and last_joy_sent = today;
\* anything else gives streak 1 and last_joy_sent = today (written after the
\* community break notification, which is sent iff the old streak was > 0).
C12_AggregateTransition ==
    [][\A p \in Procs :
          LET today == tasks'[p].today
              sent == tasks'[p].sent
          IN  /\ AggregateStep(p) =>
                    IF server_stats.last_joy_sent = today
                    THEN server_stats' = server_stats /\ "server_break" \notin sent
                    ELSE IF server_stats.last_joy_sent = today - 1
                    THEN /\ server_stats' =
                               [server_streak |-> server_stats.server_streak + 1,
                                last_joy_sent |-> today]
                         /\ "server_break" \notin sent
                    ELSE /\ "server_break" \in sent <=> server_stats.server_streak > 0
                         /\ "server_break" \notin sent =>
                               server_stats' = [server_streak |-> 1, last_joy_sent |-> today]
              /\ (tasks[p].pc = "await_server_break" /\ tasks'[p].pc # tasks[p].pc) =>
                    server_stats' = [server_streak |-> 1, last_joy_sent |-> today]]_vars

\* C13: every existing user's max_hp is calculate_max_hp of the user's current
\* level and class: after lazy creation, after every XP grant or penalty, and
\* after class assignment.
C13_MaxHpDerived ==
    \A u \in DOMAIN users :
        users[u].max_hp = calculate_max_hp(users[u].level, users[u].user_class)

\* C14: every existing user has 0 <= hp <= max_hp, in particular after an XP
\* grant or penalty that changed the level and with it max_hp.
C14_HpWithinMax ==
    \A u \in DOMAIN users :
        0 <= users[u].hp /\ users[u].hp <= users[u].max_hp

\* C15: assigning class c to an existing user sets user_class to c, max_hp to
\* calculate_max_hp(current level, c) and hp to that max_hp, whatever hp was
\* and whatever identifier c is; nothing else in the row changes.
C15_AssignClass ==
    [][(ops' = ops + 1 /\ reply'.op = "set_class" /\ has_user(DB, reply'.uid)) =>
          LET u == reply'.uid
              c == reply'.class_name
              new_max_hp == calculate_max_hp(users[u].level, c)
          IN  users' = [users EXCEPT ![u] =
                           [@ EXCEPT !.user_class = c, !.max_hp = new_max_hp,
                                     !.hp = new_max_hp]]]_vars

\* A level-3 user has been assigned joy_keeper and stands at 80 of 80.
C15_Witness ==
    /\ reply.op = "set_class" /\ has_user(DB, reply.uid)
    /\ LET r == users[reply.uid]
       IN  r.level = 3 /\ r.user_class = "joy_keeper" /\ r.hp = 80 /\ r.max_hp = 80

\* The curve as the specification states it: the running total of the step
\* costs, 60 for steps 2..16, 90 for steps 17..36, 120 beyond.
ExperienceForLevel(L) ==
    60 * (Min(L, 16) - 1) + 90 * Max(0, Min(L, 36) - 16) + 120 * Max(0, L - 36)

\* The largest level whose total is at most xp (xp clamped at 0).
LevelForExperience(xp) ==
    CHOOSE L \in 1 .. MaxLevel :
        /\ ExperienceForLevel(L) <= Max(0, xp)
        /\ ExperienceForLevel(L + 1) > Max(0, xp)

\* C16: a grant of delta XP (of either sign) to a user leaves xp = max(0, old xp
\* + delta) and level = LevelForExperience(xp), however many thresholds the
\* grant crosses, and reports old and new level and leveled_up = (new level >
\* old level).
C16_GrantExperience ==
    [][(ops' = ops + 1 /\ reply'.op = "give_xp") =>
          LET u == reply'.uid
              old == get_or_create_user(DB, u).users[u]
              new == users'[u]
              res == reply'.result
          IN  /\ new.xp = Max(0, old.xp + reply'.amount)
              /\ new.level = LevelForExperience(new.xp)
              /\ res.xp = new.xp
              /\ res.old_level = old.level /\ res.new_level = new.level
              /\ res.leveled_up <=> new.level > old.level]_vars

\* One grant has crossed two level thresholds at once.
C16_Witness ==
    /\ reply.op = "give_xp"
    /\ reply.result.new_level >= reply.result.old_level + 2
    /\ users[reply.uid].level = reply.result.new_level

\* C17: calculate_xp_for_level is the running total of the step costs: 0 for
\* level 1, and each further step costs 60 up to step 16, 90 up to step 36 and
\* 120 beyond, so that level 16 needs 900, level 36 needs 2700 and level 37
\* needs 2820.  Stated on the level of every user and the level after it.
C17_CurveTotals ==
    /\ calculate_xp_for_level(1) = 0
    /\ calculate_xp_for_level(16) = 900
    /\ calculate_xp_for_level(36) = 2700
    /\ calculate_xp_for_level(37) = 2820
    /\ \A u \in DOMAIN users :
          LET L == users[u].level
          IN  /\ calculate_xp_for_level(L) = ExperienceForLevel(L)
              /\ calculate_xp_for_level(L + 1) - calculate_xp_for_level(L) =
                    (IF L + 1 <= 16 THEN 60 ELSE IF L + 1 <= 36 THEN 90 ELSE 120)

\* A grant of 1 XP has lifted a user onto the first threshold of the third tier.
C17_Witness ==
    /\ ops >= 1 /\ reply.op = "give_xp" /\ reply.amount = 1
    /\ reply.result.old_level = 36 /\ reply.result.new_level = 37
    /\ users[reply.uid].xp = 2820 /\ users[reply.uid].level = 37

\* C18: the curve is strictly increasing and calculate_level_from_xp inverts it
\* at the thresholds: for the level L of every user, the total of L + 1 is
\* greater than that of L, the total of L maps back to L, one XP less maps to
\* L - 1 (for L > 1), and a negative total maps to level 1.
C18_CurveInverse ==
    \A u \in DOMAIN users :
        LET L == users[u].level
        IN  /\ calculate_xp_for_level(L + 1) > calculate_xp_for_level(L)
            /\ calculate_level_from_xp(calculate_xp_for_level(L)) = L
            /\ L > 1 => calculate_level_from_xp(calculate_xp_for_level(L) - 1) = L - 1
            /\ calculate_level_from_xp(-1 - users[u].xp) = 1
            /\ users[u].level = calculate_level_from_xp(users[u].xp)

\* A loss of 1 XP has dropped a user from a threshold of the second tier to
\* the level below it.
C18_Witness ==
    /\ ops >= 1 /\ reply.op = "give_xp" /\ reply.amount = -1
    /\ reply.result.old_level \in 18 .. 36
    /\ reply.result.new_level = reply.result.old_level - 1
    /\ users[reply.uid].xp = calculate_xp_for_level(reply.result.old_level) - 1

\* Maximum hit points as the specification states them.
MaxHP(level, c) ==
    IF level < 3 \/ c = NoClass \/ c = "peasant" \/ c \notin DOMAIN class_hp
    THEN level * 10
    ELSE class_hp[c].base + (level - 3) * class_hp[c].per_level

\* C19: calculate_max_hp is level * 10 below level 3, with no class, with the
\* class peasant and with an unknown class, and base + (level - 3) * per_level
\* otherwise (96 for level 5 with (80, 8)): for the level of every user and
\* every class identifier, and in the max_hp a class assignment has stored.
C19_MaxHpFormula ==
    /\ calculate_max_hp(5, "joy_keeper") = 96
    /\ \A u \in DOMAIN users :
          /\ \A c \in AllClassIds \cup {NoClass} :
                calculate_max_hp(users[u].level, c) = MaxHP(users[u].level, c)
          /\ (reply.op = "set_class" /\ reply.uid = u) =>
                users[u].max_hp = MaxHP(users[u].level, users[u].user_class)

\* A level-5 user has been assigned joy_keeper and has max_hp 96.
C19_Witness ==
    /\ reply.op = "set_class" /\ has_user(DB, reply.uid)
    /\ LET r == users[reply.uid]
       IN  r.level = 5 /\ r.user_class = "joy_keeper" /\ r.max_hp = 96

\* C20, as stated: coins are granted at most once per user per day, whatever
\* operations run between two claims.
C20_ClaimOncePerDay ==
    \A k \in UserIds \X Days : tally[k].claimed <= 1

\* C20, amended: a claim by a user whose last_coin_claim is not today (or who
\* has no row yet) adds exactly level * DailyCoinsPerLevel coins and sets
\* last_coin_claim to today; a claim by a user whose last_coin_claim is today
\* reports "already claimed" and changes nothing; and on one day a user is
\* granted coins at most once more than force_new_day and reset_user have
\* cleared that user's claim date on that day.
C20_ClaimDaily ==
    /\ [](\A k \in UserIds \X Days : tally[k].claimed <= 1 + tally[k].reopened)
    /\ [][(ops' = ops + 1 /\ reply'.op = "claim") =>
            LET u == reply'.uid
                old == get_or_create_user(DB, u).users[u]
            IN  IF old.last_coin_claim = clock
                THEN /\ ~reply'.claimed
                     /\ users' = users
                ELSE /\ reply'.claimed
                     /\ reply'.coins_earned = old.level * DailyCoinsPerLevel
                     /\ users'[u] =
                           [old EXCEPT !.coins = old.coins + old.level * DailyCoinsPerLevel,
                                       !.last_coin_claim = clock]]_vars

\* A second claim on the day of a granted one has been refused, and the coins
\* are those of the one grant.
C20_Witness ==
    /\ reply.op = "claim" /\ ~reply.claimed
    /\ tally[<<reply.uid, clock>>].claimed = 1
    /\ tally[<<reply.uid, clock>>].reopened = 0
    /\ users[reply.uid].last_coin_claim = clock
    /\ users[reply.uid].coins = users[reply.uid].level * DailyCoinsPerLevel

\* C21: a user-scoped mutating operation (XP grant or penalty, damage, healing,
\* class assignment, daily claim, qualifying event) on a user id with no row
\* creates the row and applies the mutation: afterwards the row exists, and the
\* operation reports a result.
C21_GetOrCreate ==
    [][\A u \in UserIds :
          ( /\ ~has_user(DB, u)
            /\ ops' = ops + 1
            /\ \/ \E p \in Procs : Starts(p, u)
               \/ /\ reply'.op \in {"give_xp", "wrong_channel", "damage", "heal",
                                     "set_class", "claim"}
                  /\ reply'.uid = u )
          => /\ has_user(DB', u)
             /\ reply'.op \in {"give_xp", "wrong_channel", "damage", "heal"}
                   => reply'.result.found
             /\ reply'.op = "set_class" => reply'.ok]_vars

\* C22: the global reset is all-or-nothing.  When one of its statements fails
\* (the command reports "Reset failed"), no table has been wiped and the row of
\* server_stats is as before; when none fails, users and daily_senders are
\* empty and server_stats is back at streak 0 with no last day.
C22_ResetAllOrNothing ==
    [][(ops' = ops + 1 /\ reply'.op = "reset_all")
          => IF reply'.ok
             THEN /\ DOMAIN users' = {}
                  /\ daily_senders' = EmptyBag
                  /\ server_stats' = InitServerStats
             ELSE UNCHANGED <<users, daily_senders, server_stats>>]_vars

\* C23: when a write fails while a qualifying event is processed, the event is
\* aborted as a whole: users, daily_senders and server_stats are exactly as
\* they were before the event (here: an event whose first stretch fails).
C23_FailedEventAborts ==
    [][\A p \in Procs :
          (tasks[p].pc = "idle" /\ tasks'[p].outcome = "storage_failure")
             => UNCHANGED <<users, daily_senders, server_stats>>]_vars

\* C24: in every reachable state the table server_stats holds exactly one row
\* (the row with id 1 that init_database inserts), and its community streak
\* is at least 0, whatever events and global resets, complete or failed, ran.
C24_OneServerStats ==
    /\ server_stats # NoServerStats
    /\ DOMAIN server_stats = DOMAIN InitServerStats
    /\ server_stats.server_streak >= 0

\* An event was accepted and a global reset then ran to its end: the row is
\* still there, at streak 0.
C24_Witness ==
    /\ reply.op = "reset_all" /\ reply.ok
    /\ \E k \in DOMAIN tally : tally[k].accepted > 0
    /\ DOMAIN server_stats = DOMAIN InitServerStats
    /\ server_stats.server_streak = 0

\* C25: after a global reset that ran to its end there is no users row and no
\* daily_senders row, and server_stats is at streak 0 with no last day; the
\* next accepted qualifying event then sets the community streak to 1 and
\* sends no community-break message.
C25_AfterGlobalReset ==
    [][/\ (ops' = ops + 1 /\ reply'.op = "reset_all" /\ reply'.ok)
            => /\ DOMAIN users' = {}
               /\ daily_senders' = EmptyBag
               /\ server_stats' = InitServerStats
       /\ \A p \in Procs :
            ( /\ reply.op = "reset_all" /\ reply.ok
              /\ AggregateStep(p)
              /\ tasks[p].pc = "idle" )
            => /\ server_stats'.server_streak = 1
               /\ "server_break" \notin tasks'[p].sent]_vars

\* C26: in every reachable state daily_senders holds at most one row for each
\* (user, date), however many events, one after the other or overlapping,
\* the user sent on that date.
C26_LedgerRowUnique ==
    \A k \in UserIds \X Days : CopiesIn(k, daily_senders) <= 1

\* A user's second event of a day was taken as a double submission: the
\* ledger still has the one row of the first.
C26_Witness ==
    \E k \in UserIds \X Days :
        /\ tally[k].accepted = 1
        /\ tally[k].doubled >= 1
        /\ CopiesIn(k, daily_senders) = 1

\* C27: for every accepted qualifying event, the milestone flag is raised if
\* and only if the streak the event stores for the user is 7, 30, 100 or 365.
C27_MilestoneFlag ==
    [][\A p \in Procs :
          AggregateStep(p)
             => (tasks'[p].is_milestone
                    <=> users'[tasks'[p].uid].streak \in {7, 30, 100, 365})]_vars

\* An accepted event has just stored the streak 365 and raised the flag.
C27_Witness ==
    \E p \in Procs :
        /\ tasks[p].pc = "await_ok"
        /\ tasks[p].is_milestone
        /\ users[tasks[p].uid].streak = 365

\* C28: in every reachable state every user's coins are at least 0, whatever
\* daily claims and admin coin grants (of any amount, negative ones too) ran.
C28_CoinsNonNegative ==
    \A u \in DOMAIN users : users[u].coins >= 0

\* C29: damage_user and heal_user leave the user's hp within 0 .. max_hp, for
\* every amount (negative ones too) and every prior state; damage_user
\* reports died exactly when the new hp is 0.
C29_HpClamped ==
    [][( /\ ops' = ops + 1
         /\ reply'.op \in {"damage", "heal"}
         /\ reply'.result.found )
          => LET u == reply'.uid
             IN  /\ 0 <= users'[u].hp
                 /\ users'[u].hp <= users'[u].max_hp
                 /\ reply'.op = "damage"
                       => (reply'.result.died <=> users'[u].hp = 0)]_vars

C31_TodayBranchUnreachable ==
    \A u \in DOMAIN users :
        /\ ~check_daily_sender(DB, u, clock) => users[u].last_joy_sent # clock
        /\ \A day \in Days : tally[<<u, day>>].incs <= 1

\* C32: the force-new-day command empties daily_senders and clears every
\* user's last_coin_claim; it leaves every user's streak, xp, level, hp,
\* coins and last_joy_sent, the set of users, and server_stats as they were.
C32_ForceNewDayFrame ==
    [][(ops' = ops + 1 /\ reply'.op = "newday")
          => /\ daily_senders' = EmptyBag
             /\ DOMAIN users' = DOMAIN users
             /\ \A u \in DOMAIN users :
                   /\ users'[u].last_coin_claim = NULL
                   /\ users'[u] = [users[u] EXCEPT !.last_coin_claim = NULL]
             /\ server_stats' = server_stats]_vars

\* The command has run on a day on which a member had sent an event and
\* claimed coins: the ledger is empty and the claim day cleared, the event
\* day and the coins are still there.
C32_Witness ==
    /\ reply.op = "newday"
    /\ daily_senders = EmptyBag
    /\ \E u \in DOMAIN users :
          /\ tally[<<u, clock>>].accepted >= 1
          /\ tally[<<u, clock>>].claimed >= 1
          /\ users[u].last_coin_claim = NULL
          /\ users[u].last_joy_sent = clock
          /\ users[u].coins > 0

\* C33: in every reachable state every user has xp >= 0, level >= 1 and
\* level = LevelForExperience(xp), whatever events, penalties and admin grants
\* (of either sign) ran.
C33_LevelFollowsXp ==
    \A u \in DOMAIN users :
        /\ users[u].xp >= 0
        /\ users[u].level >= 1
        /\ users[u].level = LevelForExperience(users[u].xp)

\* A wrong-channel penalty has taken a user down a level: from 130 XP at
\* level 3 to 80 XP at level 2.
C33_Witness ==
    /\ reply.op = "wrong_channel"
    /\ reply.result.found
    /\ reply.result.old_level = 3
    /\ users[reply.uid].xp = 80
    /\ users[reply.uid].level = 2

\* C34: after the per-user reset no daily_senders row of that user remains,
\* and the first event the user sends after it, even on a day they had
\* already sent, is accepted as the first of the day (streak 1, reward
\* granted) and not taken as a double submission.
C34_ResetClearsLedger ==
    [][\A u \in UserIds :
          /\ (ops' = ops + 1 /\ reply'.op = "reset_user" /\ reply'.uid = u)
                => \A day \in Days : ~check_daily_sender(DB', u, day)
          /\ \A p \in Procs :
                (reply.op = "reset_user" /\ reply.uid = u /\ Starts(p, u))
                   => /\ tasks'[p].outcome = "first"
                      /\ users'[u].streak = 1
                      /\ users'[u].xp = JoyBaseXp]_vars

\* C35: every accepted event (its day is in the ledger) in time completes its
\* transition, with last_joy_sent set to today, the streak stored and the
\* reward granted, whatever admin operations on the same user run meanwhile,
\* a per-user reset during the gap-break notification among them; and the
\* handler never goes on without the user's row or the result of the grant.
C35_AcceptedEventCompletes ==
    /\ [](\A p \in Procs : tasks[p].pc # "crashed")
    /\ \A p \in Procs :
          (tasks[p].pc = "await_gap")
             ~> ( /\ tasks[p].pc \in {"await_ok", "await_server_break"}
                  /\ tasks[p].outcome = "gap" )

\* C36: for a gap-break event with nothing interleaved on the user, the xp
\* afterwards is max(0, old xp - penalty) + reward (the loss is clamped at 0
\* before the reward is added), and the stored level is LevelForExperience
\* of that value.
C36_GapBreakXp ==
    [][\A p \in Procs :
          ( /\ tasks[p].pc = "await_gap"
            /\ tasks[p].intr = << >>
            /\ tasks'[p].pc \in {"await_ok", "await_server_break"} )
             => LET u == tasks[p].uid
                    xp == Max(0, tasks[p].user.xp - WrongChannelXpLoss) + JoyBaseXp
                IN  /\ users'[u].xp = xp
                    /\ users'[u].level = LevelForExperience(xp)]_vars

\* A gap-break event of a user who had less XP than the penalty has run
\* undisturbed: the user is left with the reward alone.
C36_Witness ==
    \E p \in Procs :
        /\ tasks[p].pc \in {"await_ok", "await_server_break"}
        /\ tasks[p].outcome = "gap"
        /\ tasks[p].intr = << >>
        /\ tasks[p].user.xp > 0
        /\ tasks[p].user.xp < WrongChannelXpLoss
        /\ users[tasks[p].uid].xp = JoyBaseXp

\* The stretch of slot p with which an accepted event has made its last write.
Completes(p) ==
    /\ tasks[p].pc \in {"idle", "await_gap", "await_server_break"}
    /\ tasks'[p].pc = "await_ok"

\* C37: when an accepted event of day D has run to completion, the user's
\* last_joy_sent is D, daily_senders holds (user, D), the last_joy_sent of
\* server_stats is D and the community streak is at least 1; and
\* double submissions and wrong-channel events never change server_stats.
C37_AfterAcceptedEvent ==
    [][/\ \A p \in Procs :
            Completes(p)
               => LET u == tasks'[p].uid
                      D == tasks'[p].today
                  IN  /\ has_user(DB', u)
                      /\ users'[u].last_joy_sent = D
                      /\ check_daily_sender(DB', u, D)
                      /\ server_stats'.last_joy_sent = D
                      /\ server_stats'.server_streak >= 1
       /\ (\E p \in Procs : tasks[p].pc = "idle" /\ tasks'[p].pc = "await_double")
             => server_stats' = server_stats
       /\ (ops' = ops + 1 /\ reply'.op = "wrong_channel")
             => server_stats' = server_stats]_vars

\* C38: healing never lowers hp: for every reachable state of a user and
\* every amount >= 0, heal_user leaves hp at least what it was and reports
\* healed >= 0.
C38_HealingMonotone ==
    [][( /\ ops' = ops + 1
         /\ reply'.op = "heal"
         /\ reply'.amount >= 0
         /\ reply'.result.found )
          => LET u == reply'.uid
             IN  /\ users'[u].hp >= users[u].hp
                 /\ reply'.result.new_hp >= reply'.result.old_hp
                 /\ reply'.result.healed >= 0]_vars

====
